---- MODULE Spec2Model ----
(***************************************************************************)
(* Model of the raster codec of utkrstht/encoder: encoder.py renders a     *)
(* framed payload into grayscale frames, decoder.py samples the frames     *)
(* back into bytes and strips the header.                                  *)
(*                                                                         *)
(* A frame is a flat sequence of width*height pixel values (row-major, as  *)
(* img.tobytes() / np.frombuffer(...).reshape((height, width)) lay it      *)
(* out): pixel (x, y) is element y*width + x + 1.                          *)
(***************************************************************************)
EXTENDS Integers, Sequences, FiniteSets, TLC

(***************************************************************************)
(* Bounds of the model.                                                    *)
(***************************************************************************)
\* longest input file, in bytes
MaxLen == 1
\* most frames of a video that did not come from the encoder
MaxForeignFrames == 2

(***************************************************************************)
(* Python built-ins used by the code.                                      *)
(***************************************************************************)
Max(a, b) == IF a >= b THEN a ELSE b

Min(a, b) == IF a <= b THEN a ELSE b

\* s[lo:hi] of Python for 0 <= lo, 0 <= hi (0-based, hi exclusive, clipped to len(s))
Slice(s, lo, hi) == SubSeq(s, Min(lo, Len(s)) + 1, Min(hi, Len(s)))

\* bytes(n): n zero bytes
ZeroBytes(n) == [i \in 1..n |-> 0]

\* An optional integer (Python None or an int): <<>> is None, <<n>> is n.
None == <<>>

Some(n) == <<n>>

\* struct.pack(">Q", n): what a wrong byte order would emit
PackBE64(n) == [i \in 1..8 |-> IF i >= 5 THEN (n \div (256 ^ (8 - i))) % 256 ELSE 0]

\* struct.pack("<Q", n), for the n < 2^31 the model can hold: bytes 5..8 are 0
PackLE64(n) == [i \in 1..8 |-> IF i <= 4 THEN (n \div (256 ^ (i - 1))) % 256 ELSE 0]

\* struct.unpack_from("<Q", buf, off)[0], for a buffer holding off+8 bytes
UnpackLE64(buf, off) ==
    buf[off + 1] + 256 * buf[off + 2] + 65536 * buf[off + 3]
    + 16777216 * (buf[off + 4] + 256 * buf[off + 5] + 65536 * buf[off + 6]
                  + 16777216 * (buf[off + 7] + 256 * buf[off + 8]))

\* b"YTF1"
MAGIC == <<89, 84, 70, 49>>

\* buf.startswith(MAGIC)
StartsWithMagic(buf) == Len(buf) >= 4 /\ SubSeq(buf, 1, 4) = MAGIC

(***************************************************************************)
(* The zstandard library, an external collaborator: a frame is the zstd    *)
(* frame magic, the content size and the content stored as a raw block.    *)
(* Decompression reads one frame and ignores what follows it; it fails on  *)
(* a missing magic or a frame cut short.                                   *)
(***************************************************************************)
ZstdMagic == <<40, 181, 47, 253>>

ZstdCompress(s) == ZstdMagic \o <<Len(s)>> \o s

ZstdValid(c) ==
    /\ Len(c) >= 5
    /\ SubSeq(c, 1, 4) = ZstdMagic
    /\ Len(c) >= 5 + c[5]

ZstdDecompress(c) == SubSeq(c, 6, 5 + c[5])

(***************************************************************************)
(* grid_dimensions and the geometry both programs derive from it.          *)
(* g is a record [width, height, block_size, gutter].                      *)
(***************************************************************************)
grid_dimensions(width, height, block_size, gutter) ==
    LET cell == block_size + gutter
    IN  [cols |-> width \div cell, rows |-> height \div cell]

Cols(g) == grid_dimensions(g.width, g.height, g.block_size, g.gutter).cols

Rows(g) == grid_dimensions(g.width, g.height, g.block_size, g.gutter).rows

BlocksPerFrame(g) == Cols(g) * Rows(g)

FrameSize(g) == g.width * g.height

StripeW(g) == Max(1, g.block_size \div 8)

\* cell origin and stripe origin of grid index idx (0-based)
CellX0(g, idx) == (idx % Cols(g)) * (g.block_size + g.gutter)

CellY0(g, idx) == (idx \div Cols(g)) * (g.block_size + g.gutter)

\* Python's // floors, as \div does
StripeSx(g, idx) == CellX0(g, idx) + ((g.block_size - StripeW(g) * 8) \div 2)

\* max(0, min(limit, v))
Clamp(limit, v) == Max(0, Min(limit, v))

(***************************************************************************)
(* encoder.py: render_frame_from_payload                                   *)
(***************************************************************************)
\* (b >> (7-bit)) & 1
BitOf(b, bit) == (b \div (2 ^ (7 - bit))) % 2

StripeColor(bitval) == IF bitval = 1 THEN 255 ELSE 0

\* img[y0c:y1c, x0c:x1c] = color
FillRect(img, W, x0c, x1c, y0c, y1c, color) ==
    [p \in 1..Len(img) |->
        LET x == (p - 1) % W
            y == (p - 1) \div W
        IN  IF x0c <= x /\ x < x1c /\ y0c <= y /\ y < y1c THEN color ELSE img[p]]

\* body of the loop over bit, for one bit
WriteStripe(img, g, idx, b, bit) ==
    LET x_stripe0 == StripeSx(g, idx) + bit * StripeW(g)
        x_stripe1 == x_stripe0 + StripeW(g)
        x0c == Clamp(g.width, x_stripe0)
        x1c == Clamp(g.width, x_stripe1)
        y0c == Clamp(g.height, CellY0(g, idx))
        y1c == Clamp(g.height, CellY0(g, idx) + g.block_size)
    IN  IF x1c > x0c /\ y1c > y0c
        THEN FillRect(img, g.width, x0c, x1c, y0c, y1c, StripeColor(BitOf(b, bit)))
        ELSE img

\* the loop over bit, from bit on.  (Taking Len(written) makes TLC evaluate a
\* write before the next one instead of nesting all the writes of a frame.)
RECURSIVE WriteStripes(_, _, _, _, _)
WriteStripes(img, g, idx, b, bit) ==
    IF bit = 8 THEN img
    ELSE LET written == WriteStripe(img, g, idx, b, bit)
         IN  IF Len(written) = Len(img)
             THEN WriteStripes(written, g, idx, b, bit + 1)
             ELSE written

\* the loop over idx, from idx on
RECURSIVE RenderBlocks(_, _, _, _)
RenderBlocks(img, g, payload_bytes, idx) ==
    IF idx >= Len(payload_bytes) \/ idx >= BlocksPerFrame(g) THEN img
    ELSE RenderBlocks(WriteStripes(img, g, idx, payload_bytes[idx + 1], 0),
                      g, payload_bytes, idx + 1)

render_frame_from_payload(payload_bytes, g) ==
    RenderBlocks([p \in 1..FrameSize(g) |-> 0], g, payload_bytes, 0)

(***************************************************************************)
(* decoder.py: decode_frames_from_raw_bytes                                *)
(***************************************************************************)
RECURSIVE SumSeq(_, _)
SumSeq(s, n) == IF n = 0 THEN 0 ELSE s[n] + SumSeq(s, n - 1)

\* a mean whose sum is accumulated in uint8 and wraps
SampleMeanWrapped(vals) == (SumSeq(vals, Len(vals)) % 256) \div Len(vals)

\* int(sample.mean()): the pixel values are >= 0, so int() floors
SampleMean(vals) == SumSeq(vals, Len(vals)) \div Len(vals)

\* frame[ys0:ys1, xs0:xs1] as the sequence of its values, row by row
SampleValues(frame, W, xs0, xs1, ys0, ys1) ==
    LET w == xs1 - xs0
    IN  [i \in 1..(w * (ys1 - ys0)) |->
            frame[(ys0 + ((i - 1) \div w)) * W + xs0 + ((i - 1) % w) + 1]]

\* a threshold that takes 127 as white
ThresholdInclusive(sample_val) == IF sample_val >= 127 THEN 1 ELSE 0

\* bitval = 1 if sample_val > 127 else 0
Threshold(sample_val) == IF sample_val > 127 THEN 1 ELSE 0

SampleVal(frame, g, idx, bit) ==
    LET x_stripe0 == StripeSx(g, idx) + bit * StripeW(g)
        x_stripe1 == x_stripe0 + StripeW(g)
        xs0 == Clamp(g.width, x_stripe0)
        xs1 == Clamp(g.width, x_stripe1)
        ys0 == Clamp(g.height, CellY0(g, idx) + 1)
        ys1 == Clamp(g.height, CellY0(g, idx) + g.block_size - 1)
    IN  IF xs1 <= xs0 \/ ys1 <= ys0 THEN 0
        ELSE SampleMean(SampleValues(frame, g.width, xs0, xs1, ys0, ys1))

RECURSIVE DecodeByte(_, _, _, _, _)
DecodeByte(frame, g, idx, bit, byte) ==
    IF bit = 8 THEN byte
    ELSE DecodeByte(frame, g, idx, bit + 1,
                    byte * 2 + Threshold(SampleVal(frame, g, idx, bit)))

DecodeFrame(frame, g) ==
    [i \in 1..BlocksPerFrame(g) |-> DecodeByte(frame, g, i - 1, 0, 0)]

TotalFrames(raw_bytes, g) == Len(raw_bytes) \div FrameSize(g)

\* the loop over f, from frame f on
RECURSIVE DecodeFrames(_, _, _)
DecodeFrames(raw_bytes, g, f) ==
    IF f >= TotalFrames(raw_bytes, g) THEN <<>>
    ELSE DecodeFrame(SubSeq(raw_bytes, f * FrameSize(g) + 1, (f + 1) * FrameSize(g)), g)
         \o DecodeFrames(raw_bytes, g, f + 1)

decode_frames_from_raw_bytes(raw_bytes, g) == DecodeFrames(raw_bytes, g, 0)

(***************************************************************************)
(* Inputs of the model.                                                    *)
(***************************************************************************)
Geom(w, h, b, gt) == [width |-> w, height |-> h, block_size |-> b, gutter |-> gt]

\* --width/--height/--block/--gutter the two programs are run with
Geometries ==
    { Geom(19, 18, 8, 1),   \* 2 x 2 grid, stripe 1, one unused column
      Geom(8, 4, 4, 0),     \* block < 8: the 8 stripes are wider than the cell
      Geom(8, 8, 7, 1),     \* block < 8: the stripe origin is left of the block
      Geom(4, 2, 2, 0),     \* block < 3: nothing is left to sample
      Geom(9, 4, 8, 1) }    \* rows = 0

\* geometries the two frame functions are applied with on their own
FrameGeometries ==
    Geometries
    \cup { Geom(9, 9, 8, 1),     \* 1 x 1 grid, stripe 1
           Geom(16, 16, 8, 1),   \* 1 x 1 grid, unused pixels right and below
           Geom(16, 8, 8, 0),    \* 2 x 1 grid without gutter
           Geom(11, 22, 10, 1),  \* 1 x 2 grid, stripes offset by 1 in the block
           Geom(19, 19, 18, 1),  \* stripe 2, stripes offset by 1 in the block
           Geom(16, 8, 4, 4) }   \* block < 8 with a wide gutter

PayloadBytes == {0, 165}

\* contents of the input file
Raws == UNION { [1..n -> PayloadBytes] : n \in 0..MaxLen }

\* per-pixel change a lossy transcode may apply
NoiseLevels == {-40, 0, 40}

\* byte values of the chunks the frame functions are applied to
ChunkBytes == {0, 1, 165, 255}

\* pixel values (even columns, odd columns) of a video that is not the encoder's
ForeignLevels == {<<127, 128>>, <<128, 127>>, <<128, 129>>, <<126, 127>>}

(***************************************************************************)
(* State.                                                                  *)
(***************************************************************************)
VARIABLES
    geom,            \* geometry arguments, the same for both programs
    raw,             \* encoder: inp.read_bytes()
    eargs,           \* encoder: [compress, zstd] (--compress, zstd importable)
    epc,             \* encoder: "start", "writing", "done", "error"; "none" when not run;
                     \* render_frame_from_payload on its own: "call", "returned"
    payload,         \* encoder: header + payload_bytes
    f,               \* encoder: index of the next frame to write
    chunks,          \* encoder: the chunks handed to render_frame_from_payload
    sink,            \* encoder: frames written to ffmpeg's stdin
    written_manifest,\* encoder: manifest.json, None until written
    dargs,           \* decoder: [compress, input, youtube, manifest]
    dpc,             \* decoder: "idle", "args", "extracted", "decoded", "parsed", "done", "error";
                     \* decode_frames_from_raw_bytes on its own: "call", "returned"
    manifest,        \* decoder: the manifest dict
    channel,         \* what happened to the video between sink and source
    raw_bytes,       \* decoder: proc.stdout
    recovered_payload,
    compressed_len,
    original_len,
    comp_bytes,
    orig             \* decoder: the bytes written to the output

vars == <<geom, raw, eargs, epc, payload, f, chunks, sink, written_manifest,
          dargs, dpc, manifest, channel, raw_bytes, recovered_payload,
          compressed_len, original_len, comp_bytes, orig>>

encVars == <<geom, raw, eargs, epc, payload, f, chunks, sink, written_manifest>>

decVars == <<dargs, dpc, manifest, channel, raw_bytes, recovered_payload,
             compressed_len, original_len, comp_bytes, orig>>

\* a dict as the set of its keys and the values of the two keys the decoder reads
Dict(keys, cl, ol) == [keys |-> keys, compressed_length |-> cl, original_length |-> ol]

EmptyDict == Dict({}, None, None)

\* Either the encoder is run on a file and the decoder on its video, or the
\* decoder is run alone on a video that is not the encoder's.
DecoderIdle ==
    /\ dargs = [compress |-> FALSE, input |-> FALSE, youtube |-> FALSE, manifest |-> "none"]
    /\ dpc = "idle"
    /\ manifest = EmptyDict
    /\ channel = [kind |-> "none"]
    /\ raw_bytes = <<>>
    /\ recovered_payload = <<>>
    /\ compressed_len = None
    /\ original_len = None
    /\ comp_bytes = <<>>
    /\ orig = <<>>

Init ==
    /\ geom \in Geometries
    /\ \/ /\ raw \in Raws
          /\ eargs \in [compress : BOOLEAN, zstd : BOOLEAN]
          /\ eargs.zstd \/ eargs.compress
          /\ epc = "start"
       \/ /\ raw = <<>>
          /\ eargs = [compress |-> FALSE, zstd |-> TRUE]
          /\ epc = "none"
    /\ payload = <<>>
    /\ f = 0
    /\ chunks = <<>>
    /\ sink = <<>>
    /\ written_manifest = None
    /\ DecoderIdle

(***************************************************************************)
(* encoder.py: main                                                        *)
(***************************************************************************)
\* payload_bytes: the compressed input with --compress, else the input
PayloadBody(r, compress) == IF compress THEN ZstdCompress(r) ELSE r

\* header = MAGIC + struct.pack("<Q", compressed_length) + struct.pack("<Q", original_length)
Header(compressed_length, original_length) ==
    MAGIC \o PackLE64(compressed_length) \o PackLE64(original_length)

FramedPayload(r, compress) ==
    Header(Len(PayloadBody(r, compress)), Len(r)) \o PayloadBody(r, compress)

\* math.ceil(payload_len / blocks_per_frame)
FramesNeeded(payload_len, blocks_per_frame) ==
    (payload_len + blocks_per_frame - 1) \div blocks_per_frame

\* the chunk of frame fr without its padding
ChunkUnpadded(pl, blocks_per_frame, fr) ==
    Slice(pl, fr * blocks_per_frame, fr * blocks_per_frame + blocks_per_frame)

\* chunk = payload[start:end], zero-padded to blocks_per_frame
Chunk(pl, blocks_per_frame, fr) ==
    LET c == Slice(pl, fr * blocks_per_frame, fr * blocks_per_frame + blocks_per_frame)
    IN  IF Len(c) < blocks_per_frame THEN c \o ZeroBytes(blocks_per_frame - Len(c)) ELSE c

\* lines 73-95: read, compress, prepend the header, derive the frame count.
\* --compress without zstandard exits; blocks_per_frame = 0 raises ZeroDivisionError.
EncPrepare ==
    /\ epc = "start"
    /\ IF eargs.compress /\ ~eargs.zstd
       THEN /\ epc' = "error"
            /\ UNCHANGED payload
       ELSE /\ payload' = FramedPayload(raw, eargs.compress)
            /\ epc' = IF BlocksPerFrame(geom) = 0 THEN "error" ELSE "writing"
    /\ UNCHANGED <<geom, raw, eargs, f, chunks, sink, written_manifest>>
    /\ UNCHANGED decVars

\* lines 127-135: one iteration of the loop, the sink accepting the write
EncWriteFrame ==
    /\ epc = "writing"
    /\ f < FramesNeeded(Len(payload), BlocksPerFrame(geom))
    /\ LET chunk == Chunk(payload, BlocksPerFrame(geom), f)
       IN  /\ chunks' = Append(chunks, chunk)
           /\ sink' = Append(sink, render_frame_from_payload(chunk, geom))
    /\ f' = f + 1
    /\ UNCHANGED <<geom, raw, eargs, epc, payload, written_manifest>>
    /\ UNCHANGED decVars

\* lines 136-139: the write raises BrokenPipeError
EncPipeClosed ==
    /\ epc = "writing"
    /\ f < FramesNeeded(Len(payload), BlocksPerFrame(geom))
    /\ epc' = "error"
    /\ UNCHANGED <<geom, raw, eargs, payload, f, chunks, sink, written_manifest>>
    /\ UNCHANGED decVars

\* lines 141-162: ffmpeg returned 0, the manifest is written
EncFinish ==
    /\ epc = "writing"
    /\ f = FramesNeeded(Len(payload), BlocksPerFrame(geom))
    /\ epc' = "done"
    /\ written_manifest' =
          Some(Dict({"compressed_length", "original_length", "width", "height"},
                    IF eargs.compress THEN Some(Len(PayloadBody(raw, TRUE))) ELSE None,
                    Some(Len(raw))))
    /\ UNCHANGED <<geom, raw, eargs, payload, f, chunks, sink>>
    /\ UNCHANGED decVars

\* lines 142-144: ffmpeg returned non-zero
EncFfmpegFailed ==
    /\ epc = "writing"
    /\ f = FramesNeeded(Len(payload), BlocksPerFrame(geom))
    /\ epc' = "error"
    /\ UNCHANGED <<geom, raw, eargs, payload, f, chunks, sink, written_manifest>>
    /\ UNCHANGED decVars

(***************************************************************************)
(* The video between the encoder's sink and the decoder's source: ffmpeg,  *)
(* the upload and the download, all external.  The decoder's ffmpeg hands  *)
(* back a flat byte stream.                                                *)
(***************************************************************************)
\* the frames of the sink as one byte stream
Flat(frames, fs) ==
    [i \in 1..(Len(frames) * fs) |-> frames[((i - 1) \div fs) + 1][((i - 1) % fs) + 1]]

\* a pixel changed by d and clamped to [0, 255]
Noisy(v, d) == Clamp(255, v + d)

\* every pixel pushed by 40 towards the threshold
Adverse(v) == IF v > 127 THEN Noisy(v, -40) ELSE Noisy(v, 40)

\* frame n of a video that is not the encoder's: columns alternate between the two
\* levels, starting with lv[1] in even frames and lv[2] in odd ones
ForeignFrame(g, lv, n) ==
    [p \in 1..FrameSize(g) |-> IF (((p - 1) % g.width) + n) % 2 = 0 THEN lv[1] ELSE lv[2]]

Channels == [kind : {"exact", "adverse", "dropframe", "cutbyte", "extrabyte"}]

NoiseChannels ==
    [kind : {"exact", "adverse"}] \cup [kind : {"noise"}, even : NoiseLevels, odd : NoiseLevels]

ForeignChannels == [kind : {"foreign"}, levels : ForeignLevels, frames : 1..MaxForeignFrames]

Received(ch, frames, g) ==
    LET fs == FrameSize(g)
        flat == Flat(frames, fs)
    IN  CASE ch.kind = "exact" -> flat
          [] ch.kind = "noise" ->
                [i \in 1..Len(flat) |->
                    Noisy(flat[i], IF (i % 2) = 0 THEN ch.even ELSE ch.odd)]
          [] ch.kind = "adverse" -> [i \in 1..Len(flat) |-> Adverse(flat[i])]
          [] ch.kind = "dropframe" -> SubSeq(flat, 1, Len(flat) - fs)
          [] ch.kind = "cutbyte" -> SubSeq(flat, 1, Len(flat) - 1)
          [] ch.kind = "extrabyte" -> Append(flat, 0)
          [] ch.kind = "foreign" ->
                [i \in 1..(ch.frames * fs) |->
                    ForeignFrame(g, ch.levels, (i - 1) \div fs)[((i - 1) % fs) + 1]]

(***************************************************************************)
(* decoder.py: main                                                        *)
(***************************************************************************)
DecoderArgs ==
    { a \in [compress : BOOLEAN, input : BOOLEAN, youtube : BOOLEAN,
             manifest : {"none", "written", "other"}] :
        /\ (a.manifest # "none") => (a.input /\ ~a.youtube)
        /\ (~a.input /\ ~a.youtube) => ~a.compress
        /\ (a.input /\ a.youtube) => a.compress }

\* a manifest.json left over from another run
OtherManifest == Dict({"compressed_length", "original_length"}, Some(1), Some(1))

\* lines 59-95: parse the arguments, pick the video and the manifest
DecArgs ==
    /\ dpc = "idle"
    /\ epc \in {"none", "done"}
    /\ \E a \in DecoderArgs :
        /\ (a.manifest = "written") => (written_manifest # None)
        /\ dargs' = a
        /\ IF a.youtube
           THEN /\ manifest' = Dict({"description"}, None, None)
                /\ dpc' = "args"
           ELSE IF a.input
           THEN /\ manifest' = CASE a.manifest = "written" -> written_manifest[1]
                                 [] a.manifest = "other" -> OtherManifest
                                 [] OTHER -> EmptyDict
                /\ dpc' = "args"
           ELSE /\ manifest' = manifest
                /\ dpc' = "error"
    /\ UNCHANGED <<channel, raw_bytes, recovered_payload, compressed_len,
                   original_len, comp_bytes, orig>>
    /\ UNCHANGED encVars

\* lines 97-114: ffmpeg extracts the raw frames of the video
DecExtract ==
    /\ dpc = "args"
    /\ \E ch \in Channels \cup ForeignChannels :
        /\ (ch.kind # "foreign") <=> (epc = "done")
        /\ channel' = ch
        /\ raw_bytes' = Received(ch, sink, geom)
    /\ dpc' = "extracted"
    /\ UNCHANGED <<dargs, manifest, recovered_payload, compressed_len,
                   original_len, comp_bytes, orig>>
    /\ UNCHANGED encVars

\* lines 110-112: ffmpeg returned non-zero
DecFfmpegFailed ==
    /\ dpc = "args"
    /\ dpc' = "error"
    /\ UNCHANGED <<dargs, manifest, channel, raw_bytes, recovered_payload,
                   compressed_len, original_len, comp_bytes, orig>>
    /\ UNCHANGED encVars

\* line 116
DecDecode ==
    /\ dpc = "extracted"
    /\ recovered_payload' = decode_frames_from_raw_bytes(raw_bytes, geom)
    /\ dpc' = "decoded"
    /\ UNCHANGED <<dargs, manifest, channel, raw_bytes, compressed_len,
                   original_len, comp_bytes, orig>>
    /\ UNCHANGED encVars

\* lines 119-129: the lengths and the body, from the header or else the manifest.
\* struct.unpack_from raises on a stream shorter than the header.
DecParse ==
    /\ dpc = "decoded"
    /\ IF StartsWithMagic(recovered_payload)
       THEN IF Len(recovered_payload) < 20
            THEN /\ dpc' = "error"
                 /\ UNCHANGED <<compressed_len, original_len, comp_bytes>>
            ELSE /\ compressed_len' = Some(UnpackLE64(recovered_payload, 4))
                 /\ original_len' = Some(UnpackLE64(recovered_payload, 12))
                 /\ comp_bytes' = Slice(recovered_payload, 20,
                                        20 + UnpackLE64(recovered_payload, 4))
                 /\ dpc' = "parsed"
       ELSE IF manifest.keys # {} /\ "compressed_length" \in manifest.keys
            THEN /\ compressed_len' = manifest.compressed_length
                 /\ original_len' = IF "original_length" \in manifest.keys
                                    THEN manifest.original_length ELSE None
                 /\ comp_bytes' = IF manifest.compressed_length = None
                                  THEN recovered_payload
                                  ELSE Slice(recovered_payload, 0,
                                             manifest.compressed_length[1])
                 /\ dpc' = "parsed"
            ELSE /\ dpc' = "error"
                 /\ UNCHANGED <<compressed_len, original_len, comp_bytes>>
    /\ UNCHANGED <<dargs, manifest, channel, raw_bytes, recovered_payload, orig>>
    /\ UNCHANGED encVars

\* decompression wherever --compress is given
ShouldDecompressAnySource(a) == a.compress

\* args.compress and args.input
ShouldDecompress(a) == a.compress /\ a.input

\* if original_len: orig = orig[:original_len]
Truncated(bytes, olen) ==
    IF olen # None /\ olen[1] # 0 THEN Slice(bytes, 0, olen[1]) ELSE bytes

\* lines 131-143: decompress if asked, write the result.
\* The decompressor raises on bytes that are no complete zstd frame.
DecOutput ==
    /\ dpc = "parsed"
    /\ IF ShouldDecompress(dargs)
       THEN IF ZstdValid(comp_bytes)
            THEN /\ orig' = Truncated(ZstdDecompress(comp_bytes), original_len)
                 /\ dpc' = "done"
            ELSE /\ orig' = orig
                 /\ dpc' = "error"
       ELSE /\ orig' = comp_bytes
            /\ dpc' = "done"
    /\ UNCHANGED <<dargs, manifest, channel, raw_bytes, recovered_payload,
                   compressed_len, original_len, comp_bytes>>
    /\ UNCHANGED encVars

Next ==
    \/ EncPrepare
    \/ EncWriteFrame
    \/ EncPipeClosed
    \/ EncFinish
    \/ EncFfmpegFailed
    \/ DecArgs
    \/ DecExtract
    \/ DecFfmpegFailed
    \/ DecDecode
    \/ DecParse
    \/ DecOutput

Spec == Init /\ [][Next]_vars

(***************************************************************************)
(* The two frame functions applied on their own: render_frame_from_payload *)
(* to a chunk of blocks_per_frame bytes, decode_frames_from_raw_bytes to   *)
(* what a transcode made of the rendered frame, or to a foreign frame.     *)
(***************************************************************************)
FrameInit ==
    /\ geom \in FrameGeometries
    /\ payload \in [1..BlocksPerFrame(geom) -> ChunkBytes]
    /\ raw = <<>>
    /\ eargs = [compress |-> FALSE, zstd |-> TRUE]
    /\ epc = "call"
    /\ f = 0
    /\ chunks = <<>>
    /\ sink = <<>>
    /\ written_manifest = None
    /\ DecoderIdle

\* encoder.py lines 24-53, called with payload as payload_bytes
FrameRender ==
    /\ epc = "call"
    /\ sink' = <<render_frame_from_payload(payload, geom)>>
    /\ epc' = "returned"
    /\ UNCHANGED <<geom, raw, eargs, payload, f, chunks, written_manifest>>
    /\ UNCHANGED decVars

\* the frame goes through a transcode, or another frame takes its place
FrameTransmit ==
    /\ epc = "returned"
    /\ dpc = "idle"
    /\ \E ch \in NoiseChannels \cup ForeignChannels :
        /\ channel' = ch
        /\ raw_bytes' = Received(ch, sink, geom)
    /\ dpc' = "call"
    /\ UNCHANGED <<dargs, manifest, recovered_payload, compressed_len,
                   original_len, comp_bytes, orig>>
    /\ UNCHANGED encVars

\* decoder.py lines 15-49, called with raw_bytes
FrameDecode ==
    /\ dpc = "call"
    /\ recovered_payload' = decode_frames_from_raw_bytes(raw_bytes, geom)
    /\ dpc' = "returned"
    /\ UNCHANGED <<dargs, manifest, channel, raw_bytes, compressed_len,
                   original_len, comp_bytes, orig>>
    /\ UNCHANGED encVars

FrameNext ==
    \/ FrameRender
    \/ FrameTransmit
    \/ FrameDecode

FrameSpec == FrameInit /\ [][FrameNext]_vars

(***************************************************************************)
(* Properties of the frame functions (checked under FrameSpec).            *)
(***************************************************************************)
RECURSIVE SetSum(_, _)
\* the sum of val[e] over the elements e of S
SetSum(S, val) ==
    IF S = {} THEN 0
    ELSE LET e == CHOOSE x \in S : TRUE IN val[e] + SetSum(S \ {e}, val)

\* the pixel columns of the stripe of bit k of block idx, as the claims word them:
\* [clamp(sx + k*stripe_width), clamp(sx + (k+1)*stripe_width))
StripeColumns(g, idx, k) ==
    LET cols == g.width \div (g.block_size + g.gutter)
        sw == IF g.block_size \div 8 >= 1 THEN g.block_size \div 8 ELSE 1
        sx == (idx % cols) * (g.block_size + g.gutter) + ((g.block_size - sw * 8) \div 2)
    IN  { x \in 0..(g.width - 1) : sx + k * sw <= x /\ x < sx + (k + 1) * sw }

\* the pixel rows [clamp(y0 + top), clamp(y0 + block_size - top)) of block idx
BlockRows(g, idx, top) ==
    LET cols == g.width \div (g.block_size + g.gutter)
        y0 == (idx \div cols) * (g.block_size + g.gutter)
    IN  { y \in 0..(g.height - 1) : y0 + top <= y /\ y < y0 + g.block_size - top }

\* the pixels (as indices into a flat frame) of a set of columns and rows
Pixels(g, X, Y) == { y * g.width + x + 1 : x \in X, y \in Y }

\* the pixels of the cell of block idx, gutter included
CellPixels(g, idx) ==
    LET cell == g.block_size + g.gutter
        cols == g.width \div cell
        c == idx % cols
        r == idx \div cols
    IN  Pixels(g, { x \in 0..(g.width - 1) : c * cell <= x /\ x < (c + 1) * cell },
                  { y \in 0..(g.height - 1) : r * cell <= y /\ y < (r + 1) * cell })

Blocks(g) == 0..(BlocksPerFrame(g) - 1)

\* the bit the sampling rule gives for the stripe of bit k of block idx in frame fr
RuleBit(fr, g, idx, k) ==
    LET P == Pixels(g, StripeColumns(g, idx, k), BlockRows(g, idx, 1))
    IN  IF P = {} THEN 0
        ELSE IF SetSum(P, fr) >= 128 * Cardinality(P) THEN 1 ELSE 0

\* frame number n (from 0) of the decoder's input
InputFrame(n) == SubSeq(raw_bytes, n * FrameSize(geom) + 1, (n + 1) * FrameSize(geom))

\* C10: the rendered frame has width*height pixels; every pixel in the clamped
\* stripe rectangle of bit k of byte idx is 255 if that bit is set and 0 if not;
\* every pixel outside all stripe rectangles is 0; the stripes of a block lie in
\* the block's own cell (so no block's stripes overwrite another's).
RenderingRule ==
    (epc = "returned" /\ dpc = "idle" /\ BlocksPerFrame(geom) >= 1) =>
        LET img == sink[1]
            Stripe(idx, k) == Pixels(geom, StripeColumns(geom, idx, k), BlockRows(geom, idx, 0))
        IN  /\ Len(img) = geom.width * geom.height
            /\ \A idx \in Blocks(geom), k \in 0..7 :
                /\ \A p \in Stripe(idx, k) :
                      img[p] = IF (payload[idx + 1] \div (2 ^ (7 - k))) % 2 = 1 THEN 255 ELSE 0
                /\ Stripe(idx, k) \subseteq CellPixels(geom, idx)
            /\ \A p \in 1..Len(img) :
                  (\A idx \in Blocks(geom), k \in 0..7 : p \notin Stripe(idx, k)) => img[p] = 0

\* C9: bit k of byte idx of a decoded frame is 1 exactly when the truncated mean
\* of the pixels of the stripe's columns and the block's rows less the top and the
\* bottom one is above 127 (the sum is at least 128 times their number), and 0
\* when there is no such pixel; bit 0 is the most significant.
SamplingRule ==
    (dpc = "returned") =>
        /\ Len(recovered_payload) = (Len(raw_bytes) \div FrameSize(geom)) * BlocksPerFrame(geom)
        /\ \A n \in 0..((Len(raw_bytes) \div FrameSize(geom)) - 1) :
             \A idx \in Blocks(geom), k \in 0..7 :
                (recovered_payload[n * BlocksPerFrame(geom) + idx + 1] \div (2 ^ (7 - k))) % 2
                    = RuleBit(InputFrame(n), geom, idx, k)

\* a decoded frame with a stripe of mean exactly 127 read as 0 and one of mean
\* exactly 128 read as 1
SamplingBoundaryReached ==
    /\ dpc = "returned"
    /\ geom.block_size >= 8
    /\ Len(raw_bytes) >= FrameSize(geom)
    /\ \E idx \in Blocks(geom), k0 \in 0..7, k1 \in 0..7 :
        LET P0 == Pixels(geom, StripeColumns(geom, idx, k0), BlockRows(geom, idx, 1))
            P1 == Pixels(geom, StripeColumns(geom, idx, k1), BlockRows(geom, idx, 1))
        IN  /\ P0 # {} /\ SetSum(P0, InputFrame(0)) = 127 * Cardinality(P0)
            /\ BitOf(recovered_payload[idx + 1], k0) = 0
            /\ P1 # {} /\ SetSum(P1, InputFrame(0)) = 128 * Cardinality(P1)
            /\ BitOf(recovered_payload[idx + 1], k1) = 1

\* every pixel of the decoder's input is within 40 of the rendered frame's
WithinNoise ==
    /\ Len(sink) = 1
    /\ Len(raw_bytes) = Len(sink[1])
    /\ \A i \in 1..Len(raw_bytes) :
          raw_bytes[i] - sink[1][i] <= 40 /\ sink[1][i] - raw_bytes[i] <= 40

\* C2: with block_size >= 8 and gutter >= 1, a rendered frame whose pixels were
\* each changed by at most 40 (and clamped) decodes to the chunk it was rendered from.
NoiseTolerance ==
    (dpc = "returned" /\ geom.block_size >= 8 /\ geom.gutter >= 1 /\ WithinNoise) =>
        recovered_payload = payload

\* a frame of a non-empty chunk decoded after noise that moved a white pixel
\* down by 40 and a black one up by 40
NoisyFrameDecoded ==
    /\ dpc = "returned"
    /\ geom.block_size >= 8 /\ geom.gutter >= 1
    /\ BlocksPerFrame(geom) >= 2
    /\ WithinNoise
    /\ \E i \in 1..Len(raw_bytes) : sink[1][i] = 255 /\ raw_bytes[i] = 215
    /\ \E i \in 1..Len(raw_bytes) : sink[1][i] = 0 /\ raw_bytes[i] = 40
    /\ recovered_payload = payload

(***************************************************************************)
(* Properties of the two programs (checked under Spec).                    *)
(***************************************************************************)
RECURSIVE LittleEndian(_)
\* the number a byte string spells, least significant byte first; every number
\* of 2^30 or more is reported as 2^30
LittleEndian(bytes) ==
    IF bytes = <<>> THEN 0
    ELSE LET rest == LittleEndian(Tail(bytes))
         IN  IF rest >= 4194304 THEN 1073741824 ELSE Head(bytes) + 256 * rest

\* the encoder has built the framed payload
Framed == epc \in {"start", "writing", "done", "error"} /\ payload # <<>>

\* C3: the framed payload is "YTF1", compressed_length and original_length as
\* little-endian 64-bit numbers, then the body; original_length is len(raw) and
\* compressed_length is the length of the body, which is raw without --compress
\* and the compressor's output with it; the framed length is 20 + compressed_length.
FramedLayout ==
    Framed =>
        /\ Len(payload) >= 20
        /\ SubSeq(payload, 1, 4) = <<89, 84, 70, 49>>
        /\ LittleEndian(SubSeq(payload, 13, 20)) = Len(raw)
        /\ LET body == SubSeq(payload, 21, Len(payload))
           IN  /\ LittleEndian(SubSeq(payload, 5, 12)) = Len(body)
               /\ Len(payload) = 20 + LittleEndian(SubSeq(payload, 5, 12))
               /\ body = IF eargs.compress THEN ZstdCompress(raw) ELSE raw

\* a framed payload whose two lengths differ
FramedCompressed ==
    /\ epc = "writing"
    /\ eargs.compress
    /\ Len(raw) >= 1
    /\ LittleEndian(SubSeq(payload, 5, 12)) # LittleEndian(SubSeq(payload, 13, 20))

\* C5: the encoder writes the frames in order, frame i being the rendering of the
\* blocks_per_frame bytes of the framed payload from i*blocks_per_frame on, with
\* zeros where the payload has ended; when it is done it has written the least
\* number of frames that hold the payload, so fewer than blocks_per_frame zeros
\* were added.
ChunkingRule ==
    (epc \in {"writing", "done"} /\ dpc = "idle") =>
        LET bpf == (geom.width \div (geom.block_size + geom.gutter))
                   * (geom.height \div (geom.block_size + geom.gutter))
        IN  /\ bpf >= 1
            /\ Len(sink) = f
            /\ Len(chunks) = f
            /\ \A i \in 1..f :
                /\ Len(chunks[i]) = bpf
                /\ \A j \in 1..bpf :
                      chunks[i][j] = IF (i - 1) * bpf + j <= Len(payload)
                                     THEN payload[(i - 1) * bpf + j] ELSE 0
                /\ sink[i] = render_frame_from_payload(chunks[i], geom)
            /\ (f - 1) * bpf < Len(payload)
            /\ (epc = "done") => (f * bpf >= Len(payload))

\* the encoder is done and its last chunk was padded
PaddedRunDone ==
    /\ epc = "done"
    /\ dpc = "idle"
    /\ f >= 2
    /\ Len(payload) % BlocksPerFrame(geom) # 0
    /\ chunks[f][BlocksPerFrame(geom)] = 0
    /\ Len(payload) < f * BlocksPerFrame(geom)

\* the decoder has decoded the video the encoder wrote, unchanged
ExactVideoDecoded ==
    /\ epc = "done"
    /\ channel.kind = "exact"
    /\ dpc \in {"decoded", "parsed", "done", "error"}

\* C1: for every payload and every geometry with blocks_per_frame >= 1, encoding
\* without compression and decoding the unchanged frames without decompression
\* gives back the payload.
RoundTrip ==
    (ExactVideoDecoded /\ ~eargs.compress /\ ~dargs.compress /\ BlocksPerFrame(geom) >= 1) =>
        /\ dpc # "error"
        /\ dpc \in {"parsed", "done"} => comp_bytes = raw
        /\ dpc = "done" => orig = raw

\* C4: whenever the recovered stream starts with the magic, the lengths are the
\* header's, never the manifest's, and the body is the compressed_length bytes
\* from offset 20 on.
HeaderTrimming ==
    (dpc \in {"parsed", "done"} /\ Len(recovered_payload) >= 20
        /\ SubSeq(recovered_payload, 1, 4) = <<89, 84, 70, 49>>) =>
        LET cl == LittleEndian(SubSeq(recovered_payload, 5, 12))
            ol == LittleEndian(SubSeq(recovered_payload, 13, 20))
        IN  /\ compressed_len = <<cl>>
            /\ original_len = <<ol>>
            /\ Len(comp_bytes) = cl
            /\ comp_bytes = SubSeq(recovered_payload, 21, 20 + cl)

\* C6: a stream whose length is no multiple of width*height, or whose frame
\* count is not the encoder's, is not decoded.
DimensionEnforced ==
    (dpc \in {"decoded", "parsed", "done"}) =>
        /\ Len(raw_bytes) % (geom.width * geom.height) = 0
        /\ (epc = "done") => (Len(raw_bytes) = Len(sink) * geom.width * geom.height)

\* C7: with cols*rows = 0 neither program renders, writes, samples or outputs
\* anything; the decoder does not return an empty stream and go on to the header.
ZeroCapacityRejected ==
    (BlocksPerFrame(geom) = 0) =>
        /\ epc \notin {"writing", "done"}
        /\ sink = <<>>
        /\ dpc \notin {"decoded", "parsed", "done"}

\* the first n bytes of s
FirstBytes(s, n) == [i \in 1..(IF n < Len(s) THEN n ELSE Len(s)) |-> s[i]]

\* C8 as stated: with --compress the output is the decompressed body cut to
\* original_length, whatever the source of the video; without it the body.
DecompressFollowsFlag ==
    (dpc = "done") =>
        IF dargs.compress
        THEN /\ ZstdValid(comp_bytes)
             /\ original_len # None
             /\ orig = FirstBytes(ZstdDecompress(comp_bytes), original_len[1])
        ELSE orig = comp_bytes

\* C8 amended: the body is decompressed exactly when --compress and --input are
\* both given, and then cut to original_length unless that is 0 or unknown;
\* on every other run the output is the body.
DecompressFollowsFlagAndInput ==
    (dpc = "done") =>
        IF dargs.compress /\ dargs.input
        THEN /\ ZstdValid(comp_bytes)
             /\ orig = IF original_len = None \/ original_len = <<0>>
                       THEN ZstdDecompress(comp_bytes)
                       ELSE FirstBytes(ZstdDecompress(comp_bytes), original_len[1])
        ELSE orig = comp_bytes

\* a run with --compress and --input that decompressed a compressed, non-empty
\* payload and wrote it
DecompressedBodyWritten ==
    /\ dpc = "done"
    /\ dargs.compress /\ dargs.input
    /\ eargs.compress
    /\ ZstdValid(comp_bytes)
    /\ Len(raw) >= 1
    /\ orig = raw
    /\ orig # comp_bytes

====
